---- MODULE Spec2Model ----
(***************************************************************************)
(* Chunked upload of socrata-py: ChunkIterator (the locked reader),        *)
(* Source._chunked_bytes (the coordinator) and the LazyThreadPoolExecutor  *)
(* it drives.  socrata/lazy_pool.py is not part of the sources at hand;    *)
(* the pool is modelled from the specification's section 4.2 and 5.        *)
(***************************************************************************)
EXTENDS Integers, Naturals, Sequences, FiniteSets, TLC

\* ------------------------------------------------------------- bounds
MaxLen == 5
MaxChunk == 2
MaxPar == 2

\* ------------------------------------------------------------- state
VARIABLES
    stream_len,     \* length of the byte stream behind file_handle
    exact,          \* TRUE: read(n) returns n bytes while n remain; FALSE: short reads
    pos,            \* read position of file_handle
    eos,            \* some read has returned the empty string
    chunk_size,     \* init['preferred_chunk_size'] (0 before initiate)
    parallelism,    \* init['preferred_upload_parallelism'] (0 before initiate)
    seq_num,        \* ChunkIterator.seq_num
    byte_offset,    \* ChunkIterator.byte_offset
    lock,           \* ChunkIterator.lock: 0 when free, else the holder
    wpc,            \* each pool thread's position
    read,           \* __next__'s local `read`: the slice of the stream it got
    this_seq,       \* __next__'s local this_seq
    this_byte_offset, \* __next__'s local this_byte_offset
    chunk,          \* the tuple __next__ returned to the thread
    handed,         \* log: the tuples __next__ has returned, in order
    chunkCalls,     \* log: the chunk calls started (seq_num, byte_offset, payload)
    nChunkCalls,    \* log: how many chunk calls were started
    results,        \* the records pool.map has yielded, in completion order
    poolError,      \* seq_num of the first chunk whose call failed, or NoError
    cpc,            \* position of _chunked_bytes
    picked,         \* the tuple bound at line 127
    commitCalls,    \* log: the commit calls made, <<seq_num, byte_offset>>
    nShow,          \* log: how many times show was called
    upState,        \* the coordinator's state of section 4.3
    raised,         \* the error raised to the caller
    parse_source,   \* self.attributes['parse_options']['parse_source']
    source,         \* blob's local `source`: "self" or the source the change returned
    nChange,        \* log: how many parse_source changes were run
    pipelineOn      \* log: the source initiate was called on ("none" before)

vars == <<stream_len, exact, pos, eos, chunk_size, parallelism, seq_num,
          byte_offset, lock, wpc, read, this_seq, this_byte_offset, chunk,
          handed, chunkCalls, nChunkCalls, results, poolError, cpc, picked,
          commitCalls, nShow, upState, raised, parse_source, source, nChange,
          pipelineOn>>

streamVars == <<stream_len, exact>>
readerVars == <<pos, eos, seq_num, byte_offset, lock, read, this_seq,
                this_byte_offset, handed>>
coordVars == <<cpc, picked, commitCalls, nShow, upState, raised>>
initVars == <<chunk_size, parallelism>>
blobVars == <<parse_source, source, nChange>>

Workers == 1..MaxPar
NoError == 0 - 1
NoRead == [from |-> 0, len |-> 0]
NoPick == [seq |-> 0 - 1, off |-> 0, end |-> 0]
NoChunk == [seq |-> 0 - 1, off |-> 0, end |-> 0, from |-> 0, len |-> 0]

Min(a, b) == IF a < b THEN a ELSE b

\* the state when an upload method is entered, but for where it is entered
Fresh ==
    /\ stream_len \in 0..MaxLen
    /\ exact \in BOOLEAN
    /\ pos = 0
    /\ eos = FALSE
    /\ chunk_size = 0
    /\ parallelism = 0
    /\ seq_num = 0
    /\ byte_offset = 0
    /\ lock = 0
    /\ wpc = [w \in Workers |-> "off"]
    /\ read = [w \in Workers |-> NoRead]
    /\ this_seq = [w \in Workers |-> 0]
    /\ this_byte_offset = [w \in Workers |-> 0]
    /\ chunk = [w \in Workers |-> NoChunk]
    /\ handed = <<>>
    /\ chunkCalls = {}
    /\ nChunkCalls = 0
    /\ results = <<>>
    /\ poolError = NoError
    /\ picked = NoPick
    /\ commitCalls = <<>>
    /\ nShow = 0
    /\ upState = "INIT"
    /\ raised = "none"
    /\ source = "self"
    /\ nChange = 0
    /\ pipelineOn = "none"

\* _chunked_bytes is entered from csv, xls, ...: the source is parsed as data
Init ==
    /\ Fresh
    /\ cpc = "init"
    /\ parse_source = TRUE

\* blob is entered, on a source with either value of parse_source
InitBlob ==
    /\ Fresh
    /\ cpc = "blob"
    /\ parse_source \in BOOLEAN

\* ------------------------------------------------------ Source.blob
BlobChangeDropsResult ==
    /\ cpc = "blob"
    /\ parse_source
    /\ nChange' = nChange + 1
    /\ source' = source
    /\ cpc' = "init"
    /\ UNCHANGED <<streamVars, readerVars, initVars, parse_source, pipelineOn,
                   wpc, chunk, chunkCalls, nChunkCalls, results, poolError, picked,
                   commitCalls, nShow, upState, raised>>

\* if parse_source: source = self.change_parse_option('parse_source').to(False).run()
BlobChange ==
    /\ cpc = "blob"
    /\ parse_source
    /\ nChange' = nChange + 1
    /\ source' = "changed"
    /\ cpc' = "init"
    /\ UNCHANGED <<streamVars, readerVars, initVars, parse_source, pipelineOn,
                   wpc, chunk, chunkCalls, nChunkCalls, results, poolError, picked,
                   commitCalls, nShow, upState, raised>>

\* the change raises: blob ends before the pipeline starts
BlobChangeFail ==
    /\ cpc = "blob"
    /\ parse_source
    /\ nChange' = nChange + 1
    /\ cpc' = "done"
    /\ upState' = "FAILED"
    /\ raised' = "transport"
    /\ UNCHANGED <<streamVars, readerVars, initVars, parse_source, source,
                   pipelineOn, wpc, chunk, chunkCalls, nChunkCalls, results,
                   poolError, picked, commitCalls, nShow>>

\* parse_source is already false: source = self
BlobKeep ==
    /\ cpc = "blob"
    /\ ~parse_source
    /\ cpc' = "init"
    /\ UNCHANGED <<streamVars, blobVars, readerVars, initVars, pipelineOn, wpc,
                   chunk, chunkCalls, nChunkCalls, results, poolError, picked,
                   commitCalls, nShow, upState, raised>>

\* ------------------------------------------------- Source.initiate
Initiate ==
    /\ cpc = "init"
    /\ \E cs \in 1..MaxChunk, p \in 1..MaxPar :
          /\ chunk_size' = cs
          /\ parallelism' = p
    /\ cpc' = "map"
    /\ upState' = "DISPATCHING"
    /\ pipelineOn' = source
    /\ UNCHANGED <<streamVars, blobVars, readerVars, wpc, chunk, chunkCalls, nChunkCalls,
                   results, poolError, picked, commitCalls, nShow, raised>>

InitiateFail ==
    /\ cpc = "init"
    /\ cpc' = "done"
    /\ upState' = "FAILED"
    /\ raised' = "transport"
    /\ pipelineOn' = source
    /\ UNCHANGED <<streamVars, blobVars, readerVars, initVars, wpc, chunk, chunkCalls,
                   nChunkCalls, results, poolError, picked, commitCalls, nShow>>

\* ------------------------------------------- LazyThreadPoolExecutor
ProvisionedAll(w) == TRUE

\* the pool holds `parallelism` threads, fixed for the session
Provisioned(w) == w <= parallelism

\* pool = LazyThreadPoolExecutor(parallelism); pool.map(sendit, ChunkIterator(...))
Map ==
    /\ cpc = "map"
    /\ cpc' = "collect"
    /\ wpc' = [w \in Workers |-> IF Provisioned(w) THEN "idle" ELSE "off"]
    /\ UNCHANGED <<streamVars, blobVars, pipelineOn, readerVars, initVars, chunk, chunkCalls,
                   nChunkCalls, results, poolError, picked, commitCalls, nShow,
                   upState, raised>>

PoolAdmitsAlways == TRUE

\* once a thread has reported a transport failure the pool admits no new chunk
PoolAdmits == poolError = NoError

\* the pool surfaces the first error
PoolFirstError(seq) == IF poolError = NoError THEN seq ELSE poolError

\* a record completed after a failure is discarded
PoolYield(r) == IF poolError = NoError THEN Append(results, r) ELSE results

\* a pool thread asks the reader for its next chunk, unless the pool has failed
Pull(w) ==
    /\ wpc[w] = "idle"
    /\ wpc' = [wpc EXCEPT ![w] = IF PoolAdmits THEN "acquire" ELSE "exit"]
    /\ UNCHANGED <<streamVars, blobVars, pipelineOn, readerVars, initVars, coordVars, chunk, chunkCalls,
                   nChunkCalls, results, poolError>>

\* ------------------------------------------ ChunkIterator.__next__
CanAcquireNoLock(w) == TRUE

\* with self.lock:
CanAcquire(w) == lock = 0

Acquire(w) ==
    /\ wpc[w] = "acquire"
    /\ CanAcquire(w)
    /\ lock' = w
    /\ wpc' = [wpc EXCEPT ![w] = "read"]
    /\ UNCHANGED <<streamVars, blobVars, pipelineOn, initVars, coordVars, pos, eos, seq_num, byte_offset,
                   read, this_seq, this_byte_offset, handed, chunk, chunkCalls,
                   nChunkCalls, results, poolError>>

\* the lengths file_handle.read(n) may return at position p
ReadLens(p, n) ==
    IF p >= stream_len THEN {0}
    ELSE IF exact THEN {Min(n, stream_len - p)}
    ELSE 1..Min(n, stream_len - p)

EndOfStreamNever(r) == FALSE

\* if not read: raise StopIteration
EndOfStream(r) == r.len = 0

ReadKeepsLockAtEnd(w) ==
    /\ wpc[w] = "read"
    /\ \E n \in ReadLens(pos, chunk_size) :
          LET r == [from |-> pos, len |-> n] IN
          /\ pos' = pos + n
          /\ eos' = (eos \/ n = 0)
          /\ lock' = lock
          /\ IF EndOfStream(r)
             THEN /\ wpc' = [wpc EXCEPT ![w] = "exit"]
                  /\ read' = read
             ELSE /\ wpc' = [wpc EXCEPT ![w] = "assign"]
                  /\ read' = [read EXCEPT ![w] = r]
    /\ UNCHANGED <<streamVars, blobVars, pipelineOn, initVars, coordVars, seq_num,
                   byte_offset, this_seq, this_byte_offset, handed, chunk,
                   chunkCalls, nChunkCalls, results, poolError>>

\* read = self._filelike.read(self._chunk_size); if not read: raise StopIteration
\* (the with block releases the lock as the exception leaves it)
Read(w) ==
    /\ wpc[w] = "read"
    /\ \E n \in ReadLens(pos, chunk_size) :
          LET r == [from |-> pos, len |-> n] IN
          /\ pos' = pos + n
          /\ eos' = (eos \/ n = 0)
          /\ IF EndOfStream(r)
             THEN /\ lock' = 0
                  /\ wpc' = [wpc EXCEPT ![w] = "exit"]
                  /\ read' = read
             ELSE /\ lock' = lock
                  /\ wpc' = [wpc EXCEPT ![w] = "assign"]
                  /\ read' = [read EXCEPT ![w] = r]
    /\ UNCHANGED <<streamVars, blobVars, pipelineOn, initVars, coordVars, seq_num, byte_offset, this_seq,
                   this_byte_offset, handed, chunk, chunkCalls, nChunkCalls,
                   results, poolError>>

\* this_seq = self.seq_num; this_byte_offset = self.byte_offset
Assign(w) ==
    /\ wpc[w] = "assign"
    /\ this_seq' = [this_seq EXCEPT ![w] = seq_num]
    /\ this_byte_offset' = [this_byte_offset EXCEPT ![w] = byte_offset]
    /\ wpc' = [wpc EXCEPT ![w] = "bump"]
    /\ UNCHANGED <<streamVars, blobVars, pipelineOn, initVars, coordVars, pos, eos, seq_num, byte_offset,
                   lock, read, handed, chunk, chunkCalls, nChunkCalls, results,
                   poolError>>

AdvanceByChunkSize(off, r) == off + chunk_size

AdvanceNot(off, r) == off

\* self.byte_offset = self.byte_offset + len(read)
Advance(off, r) == off + r.len

\* self.seq_num = self.seq_num + 1; self.byte_offset = self.byte_offset + len(read)
Bump(w) ==
    /\ wpc[w] = "bump"
    /\ seq_num' = seq_num + 1
    /\ byte_offset' = Advance(byte_offset, read[w])
    /\ wpc' = [wpc EXCEPT ![w] = "return"]
    /\ UNCHANGED <<streamVars, blobVars, pipelineOn, initVars, coordVars, pos, eos, lock, read, this_seq,
                   this_byte_offset, handed, chunk, chunkCalls, nChunkCalls,
                   results, poolError>>

ReturnKeepsLock(w) ==
    /\ wpc[w] = "return"
    /\ LET c == [seq |-> this_seq[w], off |-> this_byte_offset[w],
                 end |-> byte_offset, from |-> read[w].from, len |-> read[w].len]
       IN /\ chunk' = [chunk EXCEPT ![w] = c]
          /\ handed' = Append(handed, c)
    /\ lock' = lock
    /\ read' = [read EXCEPT ![w] = NoRead]
    /\ this_seq' = [this_seq EXCEPT ![w] = 0]
    /\ this_byte_offset' = [this_byte_offset EXCEPT ![w] = 0]
    /\ wpc' = [wpc EXCEPT ![w] = "got"]
    /\ UNCHANGED <<streamVars, blobVars, pipelineOn, initVars, coordVars, pos, eos,
                   seq_num, byte_offset, chunkCalls, nChunkCalls, results, poolError>>

\* return (this_seq, this_byte_offset, self.byte_offset, read), leaving the lock
Return(w) ==
    /\ wpc[w] = "return"
    /\ LET c == [seq |-> this_seq[w], off |-> this_byte_offset[w],
                 end |-> byte_offset, from |-> read[w].from, len |-> read[w].len]
       IN /\ chunk' = [chunk EXCEPT ![w] = c]
          /\ handed' = Append(handed, c)
    /\ lock' = 0
    /\ read' = [read EXCEPT ![w] = NoRead]
    /\ this_seq' = [this_seq EXCEPT ![w] = 0]
    /\ this_byte_offset' = [this_byte_offset EXCEPT ![w] = 0]
    /\ wpc' = [wpc EXCEPT ![w] = "got"]
    /\ UNCHANGED <<streamVars, blobVars, pipelineOn, initVars, coordVars, pos, eos, seq_num, byte_offset,
                   chunkCalls, nChunkCalls, results, poolError>>

\* ------------------------------------------ sendit, in a pool thread
ChunkArgsEndOffset(c) ==
    [seq |-> c.seq, off |-> c.end, from |-> c.from, len |-> c.len]

\* (seq_num, byte_offset, end_byte_offset, bytes) = chunk;
\* self.chunk(seq_num, byte_offset, bytes)
ChunkArgs(c) ==
    [seq |-> c.seq, off |-> c.off, from |-> c.from, len |-> c.len]

\* the chunk call of sendit is started, unless the pool has failed
Send(w) ==
    /\ wpc[w] = "got"
    /\ IF PoolAdmits
       THEN /\ chunkCalls' = chunkCalls \cup {ChunkArgs(chunk[w])}
            /\ nChunkCalls' = nChunkCalls + 1
            /\ wpc' = [wpc EXCEPT ![w] = "sending"]
            /\ chunk' = chunk
       ELSE /\ wpc' = [wpc EXCEPT ![w] = "exit"]
            /\ chunk' = [chunk EXCEPT ![w] = NoChunk]
            /\ UNCHANGED <<chunkCalls, nChunkCalls>>
    /\ UNCHANGED <<streamVars, blobVars, pipelineOn, readerVars, initVars, coordVars, results, poolError>>

\* the chunk call returns; sendit returns (seq_num, byte_offset, end_byte_offset)
SendOk(w) ==
    /\ wpc[w] = "sending"
    /\ results' = PoolYield([seq |-> chunk[w].seq, off |-> chunk[w].off,
                              end |-> chunk[w].end])
    /\ chunk' = [chunk EXCEPT ![w] = NoChunk]
    /\ wpc' = [wpc EXCEPT ![w] = "idle"]
    /\ UNCHANGED <<streamVars, blobVars, pipelineOn, readerVars, initVars, coordVars, chunkCalls,
                   nChunkCalls, poolError>>

\* the chunk call raises a transport error
SendFail(w) ==
    /\ wpc[w] = "sending"
    /\ poolError' = PoolFirstError(chunk[w].seq)
    /\ chunk' = [chunk EXCEPT ![w] = NoChunk]
    /\ wpc' = [wpc EXCEPT ![w] = "exit"]
    /\ UNCHANGED <<streamVars, blobVars, pipelineOn, readerVars, initVars, coordVars, chunkCalls,
                   nChunkCalls, results>>

Worker(w) ==
    \/ Pull(w)
    \/ Acquire(w)
    \/ Read(w)
    \/ Assign(w)
    \/ Bump(w)
    \/ Return(w)
    \/ Send(w)
    \/ SendOk(w)
    \/ SendFail(w)

\* ------------------------------------------ Source._chunked_bytes
\* pool.map's iterator ends once every pool thread has finished
PoolDrained == \A w \in Workers : wpc[w] \in {"off", "exit"}

\* pool.map surfaces the first error
PoolRaised == poolError # NoError

\* sorted(results, key=lambda x: x[0]): a stable insertion sort
RECURSIVE InsertBySeq(_, _)
InsertBySeq(s, r) ==
    IF s = <<>> THEN <<r>>
    ELSE IF s[Len(s)].seq <= r.seq THEN Append(s, r)
    ELSE Append(InsertBySeq(SubSeq(s, 1, Len(s) - 1), r), s[Len(s)])

RECURSIVE SortBySeq(_)
SortBySeq(s) ==
    IF s = <<>> THEN <<>>
    ELSE InsertBySeq(SortBySeq(SubSeq(s, 1, Len(s) - 1)), s[Len(s)])

PickLastCompleted(rs) == rs[Len(rs)]

\* sorted(results, key=lambda x: x[0])[-1]
PickLast(rs) == SortBySeq(rs)[Len(rs)]

CollectSwallowError ==
    /\ cpc = "collect"
    /\ PoolDrained
    /\ IF results = <<>>
       THEN /\ cpc' = "done"
            /\ upState' = "FAILED"
            /\ raised' = "index"
            /\ picked' = picked
       ELSE /\ cpc' = "commit"
            /\ upState' = "AWAITING_COMMIT"
            /\ raised' = raised
            /\ picked' = PickLast(results)
    /\ UNCHANGED <<streamVars, blobVars, pipelineOn, readerVars, initVars, wpc, chunk, chunkCalls,
                   nChunkCalls, results, poolError, commitCalls, nShow>>

CollectFirstResult ==
    /\ cpc = "collect"
    /\ results # <<>> \/ PoolDrained
    /\ IF PoolRaised
       THEN /\ cpc' = "done"
            /\ upState' = "FAILED"
            /\ raised' = "transport"
            /\ picked' = picked
       ELSE IF results = <<>>
       THEN /\ cpc' = "done"
            /\ upState' = "FAILED"
            /\ raised' = "index"
            /\ picked' = picked
       ELSE /\ cpc' = "commit"
            /\ upState' = "AWAITING_COMMIT"
            /\ raised' = raised
            /\ picked' = PickLast(results)
    /\ UNCHANGED <<streamVars, blobVars, pipelineOn, readerVars, initVars, wpc, chunk, chunkCalls,
                   nChunkCalls, results, poolError, commitCalls, nShow>>

CollectSkipEmpty ==
    /\ cpc = "collect"
    /\ PoolDrained
    /\ IF PoolRaised
       THEN /\ cpc' = "done"
            /\ upState' = "FAILED"
            /\ raised' = "transport"
            /\ picked' = picked
       ELSE IF results = <<>>
       THEN /\ cpc' = "show"
            /\ upState' = "COMMITTED"
            /\ raised' = raised
            /\ picked' = picked
       ELSE /\ cpc' = "commit"
            /\ upState' = "AWAITING_COMMIT"
            /\ raised' = raised
            /\ picked' = PickLast(results)
    /\ UNCHANGED <<streamVars, blobVars, pipelineOn, readerVars, initVars, wpc,
                   chunk, chunkCalls, nChunkCalls, results, poolError, commitCalls,
                   nShow>>

CollectCommitEmpty ==
    /\ cpc = "collect"
    /\ PoolDrained
    /\ IF PoolRaised
       THEN /\ cpc' = "done"
            /\ upState' = "FAILED"
            /\ raised' = "transport"
            /\ picked' = picked
       ELSE /\ cpc' = "commit"
            /\ upState' = "AWAITING_COMMIT"
            /\ raised' = raised
            /\ picked' = IF results = <<>> THEN [seq |-> 0, off |-> 0, end |-> 0]
                         ELSE PickLast(results)
    /\ UNCHANGED <<streamVars, blobVars, pipelineOn, readerVars, initVars, wpc, chunk, chunkCalls,
                   nChunkCalls, results, poolError, commitCalls, nShow>>

\* results = [r for r in pool.map(sendit, ...)]: the list is complete when the
\* pool is drained, and an error the pool surfaces leaves _chunked_bytes here;
\* (seq_num, byte_offset, end_byte_offset) = sorted(results, ...)[-1] raises
\* IndexError on an empty list
Collect ==
    /\ cpc = "collect"
    /\ PoolDrained
    /\ IF PoolRaised
       THEN /\ cpc' = "done"
            /\ upState' = "FAILED"
            /\ raised' = "transport"
            /\ picked' = picked
       ELSE IF results = <<>>
       THEN /\ cpc' = "done"
            /\ upState' = "FAILED"
            /\ raised' = "index"
            /\ picked' = picked
       ELSE /\ cpc' = "commit"
            /\ upState' = "AWAITING_COMMIT"
            /\ raised' = raised
            /\ picked' = PickLast(results)
    /\ UNCHANGED <<streamVars, blobVars, pipelineOn, readerVars, initVars, wpc, chunk, chunkCalls,
                   nChunkCalls, results, poolError, commitCalls, nShow>>

CommitArgsStart(p) == <<p.seq, p.off>>

\* self.commit(seq_num, end_byte_offset)
CommitArgs(p) == <<p.seq, p.end>>

CommitOk ==
    /\ cpc = "commit"
    /\ commitCalls' = Append(commitCalls, CommitArgs(picked))
    /\ cpc' = "show"
    /\ upState' = "COMMITTED"
    /\ UNCHANGED <<streamVars, blobVars, pipelineOn, readerVars, initVars, wpc, chunk, chunkCalls,
                   nChunkCalls, results, poolError, picked, nShow, raised>>

CommitFailThenShow ==
    /\ cpc = "commit"
    /\ commitCalls' = Append(commitCalls, CommitArgs(picked))
    /\ cpc' = "show"
    /\ upState' = "FAILED"
    /\ raised' = raised
    /\ UNCHANGED <<streamVars, blobVars, pipelineOn, readerVars, initVars, wpc,
                   chunk, chunkCalls, nChunkCalls, results, poolError, picked, nShow>>

CommitFailRetry ==
    /\ cpc = "commit"
    /\ commitCalls' = Append(commitCalls, CommitArgs(picked))
    /\ cpc' = "commit"
    /\ upState' = upState
    /\ raised' = raised
    /\ UNCHANGED <<streamVars, blobVars, pipelineOn, readerVars, initVars, wpc,
                   chunk, chunkCalls, nChunkCalls, results, poolError, picked, nShow>>

\* self.commit(seq_num, end_byte_offset) raises: nothing catches it
CommitFail ==
    /\ cpc = "commit"
    /\ commitCalls' = Append(commitCalls, CommitArgs(picked))
    /\ cpc' = "done"
    /\ upState' = "FAILED"
    /\ raised' = "transport"
    /\ UNCHANGED <<streamVars, blobVars, pipelineOn, readerVars, initVars, wpc, chunk, chunkCalls,
                   nChunkCalls, results, poolError, picked, nShow>>

\* return self.show()
ShowOk ==
    /\ cpc = "show"
    /\ nShow' = nShow + 1
    /\ cpc' = "done"
    /\ UNCHANGED <<streamVars, blobVars, pipelineOn, readerVars, initVars, wpc, chunk, chunkCalls,
                   nChunkCalls, results, poolError, picked, commitCalls, upState,
                   raised>>

ShowFail ==
    /\ cpc = "show"
    /\ nShow' = nShow + 1
    /\ cpc' = "done"
    /\ raised' = "transport"
    /\ UNCHANGED <<streamVars, blobVars, pipelineOn, readerVars, initVars, wpc, chunk, chunkCalls,
                   nChunkCalls, results, poolError, picked, commitCalls, upState>>

Next ==
    \/ Initiate
    \/ InitiateFail
    \/ Map
    \/ \E w \in Workers : Worker(w)
    \/ Collect
    \/ CommitOk
    \/ CommitFail
    \/ ShowOk
    \/ ShowFail

Spec == Init /\ [][Next]_vars

\* an upload entered through blob
NextBlob ==
    \/ BlobChange
    \/ BlobChangeFail
    \/ BlobKeep
    \/ Next

SpecBlob == InitBlob /\ [][NextBlob]_vars

\* _chunked_bytes runs on; every pool thread that can take a step takes one
Coordinator ==
    \/ Initiate
    \/ InitiateFail
    \/ Map
    \/ Collect
    \/ CommitOk
    \/ CommitFail
    \/ ShowOk
    \/ ShowFail

Fairness ==
    /\ WF_vars(Coordinator)
    /\ \A w \in Workers : WF_vars(Worker(w))

FairSpec == Init /\ [][Next]_vars /\ Fairness

\* ------------------------------------------------------------- claims
InFlight == Cardinality({w \in Workers : wpc[w] = "sending"})

OutOfOrder(rs) == \E i, j \in 1..Len(rs) : i < j /\ rs[i].seq > rs[j].seq

\* C1: under any interleaving of the pool threads calling __next__, the chunks
\* handed out carry seq_nums 0, 1, ..., k-1, each once, and byte ranges that
\* follow one another from 0 without gap or overlap; once the stream has
\* returned end-of-stream the ranges cover exactly [0, stream_len).
C1_ChunksPartitionStream ==
    /\ \A i \in 1..Len(handed) :
          /\ handed[i].seq = i - 1
          /\ handed[i].off = (IF i = 1 THEN 0 ELSE handed[i - 1].end)
          /\ handed[i].off < handed[i].end
    /\ eos => IF handed = <<>> THEN stream_len = 0
              ELSE handed[Len(handed)].end = stream_len

C1_Witness ==
    /\ eos
    /\ Len(handed) >= 3
    /\ Len(results) = Len(handed)
    /\ OutOfOrder(results)

\* C2: every commit call passes an end_byte_offset equal to the number of bytes
\* read from the stream, which is the stream's length, whatever the order in
\* which the chunk calls completed.
C2_CommitOffsetIsTotal ==
    \A i \in 1..Len(commitCalls) :
        /\ commitCalls[i][2] = pos
        /\ commitCalls[i][2] = stream_len

C2_Witness ==
    /\ commitCalls # <<>>
    /\ Len(results) >= 3
    /\ results[Len(results)].seq = 0

\* C3: commit is called with the seq_num and end_byte_offset of the chunk with
\* the highest seq_num, (k-1, end of chunk k-1) for k chunks, not with those of
\* the chunk whose call completed last.
C3_CommitUsesMaxSeq ==
    \A i \in 1..Len(commitCalls) :
        /\ handed # <<>>
        /\ commitCalls[i] = <<Len(handed) - 1, handed[Len(handed)].end>>
        /\ \A j \in 1..Len(results) : results[j].seq <= commitCalls[i][1]

C3_Witness ==
    /\ commitCalls # <<>>
    /\ Len(results) >= 2
    /\ results[1].seq > results[Len(results)].seq

\* C4: once a chunk call has raised a transport error, commit and show are
\* never called, and _chunked_bytes ends FAILED with the transport error raised.
C4_ChunkFailureAborts ==
    poolError # NoError =>
        /\ commitCalls = <<>>
        /\ nShow = 0
        /\ cpc \in {"collect", "done"}
        /\ cpc = "done" => (upState = "FAILED" /\ raised = "transport")

C4_Witness ==
    /\ poolError = 1
    /\ results # <<>>
    /\ cpc = "done"
    /\ upState = "FAILED"

\* C5: for a 0-byte stream no chunk is handed out, no chunk call is made and
\* commit is not called.
C5_EmptyStreamNoCommit ==
    stream_len = 0 =>
        /\ handed = <<>>
        /\ seq_num = 0
        /\ nChunkCalls = 0
        /\ chunkCalls = {}
        /\ commitCalls = <<>>

C5_Witness ==
    /\ stream_len = 0
    /\ eos
    /\ cpc = "done"
    /\ poolError = NoError

\* C6: when _chunked_bytes has picked the final record or called commit, no
\* chunk call is in flight and no thread holds a chunk still to send: every
\* chunk call that was started has returned.
C6_FullBarrier ==
    (cpc \in {"commit", "show"} \/ commitCalls # <<>>) =>
        /\ \A w \in Workers : wpc[w] \notin {"got", "sending"}
        /\ InFlight = 0
        /\ Len(results) = nChunkCalls

C6_Witness ==
    /\ commitCalls # <<>>
    /\ parallelism >= 2
    /\ nChunkCalls >= 3
    /\ OutOfOrder(results)
    /\ cpc = "show"

\* C7: every chunk handed out has between 1 and chunk_size bytes, no two chunks
\* handed out share a seq_num or a byte, and a stream whose length is a
\* multiple of chunk_size, read in full chunks, ends after stream_len/chunk_size
\* chunks without a chunk of length 0.
C7_NoEmptyNoRepeatedChunk ==
    /\ \A i \in 1..Len(handed) :
          /\ 1 <= handed[i].end - handed[i].off
          /\ handed[i].end - handed[i].off <= chunk_size
          /\ handed[i].len = handed[i].end - handed[i].off
    /\ \A i, j \in 1..Len(handed) :
          i < j => /\ handed[i].seq # handed[j].seq
                   /\ (handed[i].end <= handed[j].off \/ handed[j].end <= handed[i].off)
    /\ (eos /\ exact /\ stream_len % chunk_size = 0) =>
          Len(handed) = stream_len \div chunk_size

C7_Witness ==
    /\ eos
    /\ exact
    /\ chunk_size = 2
    /\ stream_len = 4
    /\ Len(handed) = 2
    /\ \A w \in Workers : wpc[w] \in {"off", "exit"}

\* C8: when read(chunk_size) returns chunk_size bytes while that many remain,
\* chunk i is (i, i*chunk_size, min((i+1)*chunk_size, stream_len)) and the
\* reader hands out ceil(stream_len / chunk_size) chunks in all.
C8_ChunkLayout ==
    exact =>
        /\ \A i \in 1..Len(handed) :
              /\ handed[i].seq = i - 1
              /\ handed[i].off = (i - 1) * chunk_size
              /\ handed[i].end = Min(i * chunk_size, stream_len)
        /\ eos => Len(handed) = (stream_len + chunk_size - 1) \div chunk_size

C8_Witness ==
    /\ exact
    /\ eos
    /\ stream_len = 5
    /\ chunk_size = 2
    /\ [i \in 1..Len(handed) |-> <<handed[i].seq, handed[i].off, handed[i].end>>]
          = << <<0, 0, 2>>, <<1, 2, 4>>, <<2, 4, 5>> >>

\* C9: with parallelism 1 the chunk calls complete in seq_num order: the i-th
\* completion is that of the chunk with seq_num i-1.
C9_SerialCompletionOrder ==
    parallelism = 1 =>
        /\ ~OutOfOrder(results)
        /\ \A i \in 1..Len(results) : results[i].seq = i - 1

C9_Witness ==
    /\ parallelism = 1
    /\ Len(results) >= 3
    /\ cpc = "collect"

\* C10: the number of chunk calls in flight never exceeds the parallelism that
\* initiate returned, and that value does not change once initiate has returned.
C10_BoundedInFlight ==
    /\ [](InFlight <= parallelism)
    /\ [][cpc # "init" => parallelism' = parallelism]_vars

C10_Witness ==
    /\ parallelism >= 2
    /\ InFlight = parallelism

\* the calls made to the collaborators so far
Calls == <<nChunkCalls, commitCalls, nShow>>

CommitFailed == commitCalls # <<>> /\ upState = "FAILED"

\* C11 as stated: a failed commit ends the upload FAILED with the error raised,
\* no show and no second commit, and after COMMITTED or FAILED is reached no
\* chunk, commit or show call happens.
C11_NoCallAfterTerminal ==
    /\ [](CommitFailed => /\ nShow = 0
                          /\ Len(commitCalls) = 1
                          /\ cpc = "done"
                          /\ raised = "transport")
    /\ [][(upState = "COMMITTED" \/ upState = "FAILED") => (Calls' = Calls)]_vars

\* C11 amended: a failed commit ends the upload FAILED with the error raised,
\* no show and no second commit; FAILED is left by no step and no call follows
\* it; COMMITTED is left by no step and no chunk or commit call follows it
\* (the one show call of line 129 does).
C11_CommitFailureAborts ==
    /\ [](CommitFailed => /\ nShow = 0
                          /\ Len(commitCalls) = 1
                          /\ cpc = "done"
                          /\ raised = "transport")
    /\ [][upState = "FAILED" => (Calls' = Calls /\ upState' = upState)]_vars
    /\ [][upState = "COMMITTED" =>
            /\ nChunkCalls' = nChunkCalls
            /\ commitCalls' = commitCalls
            /\ nShow' <= 1
            /\ upState' = upState]_vars

C11_Witness ==
    /\ CommitFailed
    /\ cpc = "done"
    /\ Len(results) >= 2
    /\ nShow = 0

\* C12: once a chunk call has failed, no chunk call is started, the error the
\* pool holds stays that of the first failure, and no record is added to the
\* results, so none reaches commit.
C12_NoAdmissionAfterFailure ==
    /\ [](poolError # NoError => commitCalls = <<>>)
    /\ [][poolError # NoError =>
            /\ nChunkCalls' = nChunkCalls
            /\ chunkCalls' = chunkCalls
            /\ results' = results
            /\ poolError' = poolError]_vars

C12_Witness ==
    /\ poolError = 1
    /\ results # <<>>
    /\ \E w \in Workers : wpc[w] = "sending" /\ chunk[w].seq = 2

\* C13: nothing is read or sent before initiate has returned; chunk calls stop
\* before commit; commit is called at most once; show is called at most once,
\* and only after a commit that succeeded.
C13_CallOrder ==
    /\ [](chunk_size = 0 => /\ pos = 0
                            /\ ~eos
                            /\ handed = <<>>
                            /\ nChunkCalls = 0
                            /\ commitCalls = <<>>
                            /\ nShow = 0)
    /\ [](Len(commitCalls) <= 1 /\ nShow <= 1)
    /\ [](nShow = 1 => (Len(commitCalls) = 1 /\ upState = "COMMITTED"))
    /\ [](cpc = "show" => upState = "COMMITTED")
    /\ [][commitCalls # <<>> =>
            (nChunkCalls' = nChunkCalls /\ handed' = handed /\ pos' = pos)]_vars
    /\ [][nShow # 0 => commitCalls' = commitCalls]_vars

C13_Witness ==
    /\ nShow = 1
    /\ cpc = "done"
    /\ raised = "none"
    /\ nChunkCalls >= 3
    /\ pipelineOn = "self"

\* C14: under any interleaving, the payload of every chunk handed out, and of
\* every chunk call, is the slice of the stream at [byte_offset,
\* end_byte_offset): what one thread read is never paired with the seq_num or
\* offsets of another thread's read.
C14_PayloadMatchesOffsets ==
    /\ \A i \in 1..Len(handed) :
          /\ handed[i].from = handed[i].off
          /\ handed[i].from + handed[i].len = handed[i].end
    /\ \A c \in chunkCalls :
          /\ c.from = c.off
          /\ \E i \in 1..Len(handed) :
                handed[i].seq = c.seq /\ handed[i].from = c.from
                    /\ handed[i].len = c.len
    /\ \A w \in Workers :
          wpc[w] \in {"got", "sending"} =>
              (chunk[w].from = chunk[w].off /\ chunk[w].from + chunk[w].len = chunk[w].end)

C14_Witness ==
    /\ ~exact
    /\ parallelism = 2
    /\ Len(handed) >= 3
    /\ \E i \in 1..Len(handed) : handed[i].len < chunk_size /\ i < Len(handed)
    /\ \A w \in Workers : wpc[w] = "sending"

\* C15: each chunk call carries the seq_num, byte_offset and payload of one
\* chunk handed out, no seq_num is sent twice, and when commit is called the
\* chunk calls made are exactly one for each seq_num 0..k-1.
C15_EachChunkSentOnce ==
    /\ Cardinality(chunkCalls) = nChunkCalls
    /\ \A c, d \in chunkCalls : c.seq = d.seq => c = d
    /\ \A c \in chunkCalls :
          /\ c.seq + 1 \in 1..Len(handed)
          /\ c = [seq |-> handed[c.seq + 1].seq, off |-> handed[c.seq + 1].off,
                  from |-> handed[c.seq + 1].from, len |-> handed[c.seq + 1].len]
    /\ commitCalls # <<>> =>
          /\ nChunkCalls = Len(handed)
          /\ {c.seq : c \in chunkCalls} = 0..(Len(handed) - 1)

C15_Witness ==
    /\ commitCalls # <<>>
    /\ nChunkCalls >= 4
    /\ ~exact
    /\ raised = "none"

\* C16: in blob, a source whose parse_source is true gets exactly one change
\* of parse_source, run before initiate, and the pipeline runs on the source
\* that change returned; a source whose parse_source is false gets no change
\* and the pipeline runs on the source itself.
C16_BlobDisablesParsingFirst ==
    /\ cpc = "blob" => (pipelineOn = "none" /\ nChange = 0 /\ chunk_size = 0)
    /\ pipelineOn = "none" => (chunk_size = 0 /\ pos = 0 /\ nChunkCalls = 0)
    /\ pipelineOn # "none" =>
          IF parse_source THEN nChange = 1 /\ pipelineOn = "changed"
          ELSE nChange = 0 /\ pipelineOn = "self"

C16_Witness ==
    /\ parse_source
    /\ pipelineOn = "changed"
    /\ nChange = 1
    /\ nShow = 1
    /\ raised = "none"

RECURSIVE SumLen(_)
SumLen(cs) == IF cs = <<>> THEN 0 ELSE cs[Len(cs)].len + SumLen(SubSeq(cs, 1, Len(cs) - 1))

\* a step in which thread w's call of __next__ ends with end-of-stream
EndsWithEndOfStream(w) == wpc[w] = "read" /\ wpc'[w] = "exit"

\* C17: whenever no thread holds the lock, seq_num is the number of chunks
\* handed out and byte_offset is the sum of their payload lengths and the
\* stream's read position; neither counter ever decreases, and a call that
\* ends with end-of-stream changes neither.
C17_ReaderCounters ==
    /\ [](lock = 0 => /\ seq_num = Len(handed)
                      /\ byte_offset = SumLen(handed)
                      /\ byte_offset = pos)
    /\ [][seq_num' >= seq_num /\ byte_offset' >= byte_offset]_vars
    /\ [][\A w \in Workers :
            EndsWithEndOfStream(w) =>
                (seq_num' = seq_num /\ byte_offset' = byte_offset /\ handed' = handed)]_vars

C17_Witness ==
    /\ lock = 0
    /\ eos
    /\ ~exact
    /\ seq_num = 4
    /\ byte_offset = 5
    /\ parallelism = 2

\* C18: the lock is held only by a thread inside __next__ and is free after
\* every exit, end-of-stream included; under fair scheduling every call of
\* __next__ returns a chunk or end-of-stream; once the stream is exhausted a
\* call that reads gets end-of-stream.
C18_NextAlwaysReturns ==
    /\ [](\A w \in Workers :
            lock = w => wpc[w] \in {"read", "assign", "bump", "return"})
    /\ [][\A w \in Workers :
            (wpc[w] = "read" /\ pos = stream_len /\ wpc'[w] # "read") =>
                (wpc'[w] = "exit" /\ lock' = 0 /\ eos')]_vars
    /\ \A w \in Workers :
          (wpc[w] = "acquire") ~> (wpc[w] \in {"got", "exit"})

C18_Witness ==
    /\ eos
    /\ parallelism = 2
    /\ poolError = NoError
    /\ lock = 0
    /\ \A w \in Workers : wpc[w] = "exit"
    /\ Len(handed) >= 2

NoCallFailed == poolError = NoError /\ raised # "transport"

\* C19: under fair scheduling the upload ends, and an upload of a stream of
\* length > 0 in which no call fails ends COMMITTED, with commit called once
\* and show called once and no error raised.
C19_UploadCompletes ==
    <>(/\ cpc = "done"
       /\ (stream_len > 0 /\ NoCallFailed) =>
              /\ upState = "COMMITTED"
              /\ Len(commitCalls) = 1
              /\ nShow = 1
              /\ raised = "none")

C19_Witness ==
    /\ cpc = "done"
    /\ stream_len = 5
    /\ NoCallFailed
    /\ upState = "COMMITTED"
    /\ nShow = 1
    /\ parallelism = 2

\* C20: for a 0-byte stream, once initiate has succeeded the upload ends with
\* the IndexError of line 127 raised, FAILED, with neither commit nor show
\* called, and it never returns a resource.
C20_EmptyStreamRaises ==
    (stream_len = 0 /\ chunk_size > 0) =>
        /\ commitCalls = <<>>
        /\ nShow = 0
        /\ cpc \in {"map", "collect", "done"}
        /\ upState # "COMMITTED"
        /\ cpc = "done" => (raised = "index" /\ upState = "FAILED")

C20_Witness ==
    /\ stream_len = 0
    /\ cpc = "done"
    /\ raised = "index"
    /\ parallelism = 2
    /\ \A w \in Workers : wpc[w] = "exit"

====
